---------------------------- MODULE Spec2Model ----------------------------
(***************************************************************************)
(* A model of neuroimaging/statistics/regression.py: the OLS / AR(1) / WLS *)
(* regression models with their trait-change handlers, the fit results,    *)
(* contrastfromcols and the LinearModelIterator batch loop.                *)
(*                                                                         *)
(* Numbers are exact rationals <<num, den>> with den > 0 in lowest terms;  *)
(* <<0, 0>> stands for the non-finite float a division by zero produces.   *)
(* Vectors are sequences of rationals, matrices are sequences of rows.     *)
(* An attribute that may be absent (hasattr) is a sequence of length <= 1. *)
(***************************************************************************)
EXTENDS Integers, Sequences, FiniteSets, TLC

(* ------------------------------ bounds -------------------------------- *)
\* entries of the matrix T handed to contrastfromcols range over 0..MaxCoef
MaxCoef == 1
\* the data iterator yields at most MaxChunks chunks
MaxChunks == 2
\* at most MaxOutputs outputs are registered with the iterator
MaxOutputs == 2
\* every chunk of the data iterator has ChunkSize spatial locations
ChunkSize == 2

(* --------------------------- optional values -------------------------- *)
Unset == <<>>
Some(x) == <<x>>
Has(o) == o # <<>>
Get(o) == o[1]

(* ------------------------- rational arithmetic ------------------------ *)
\* Every operator binds its arguments once (x \in {x0}) before it uses
\* them, so that an argument is evaluated exactly once.
Abs(i0) == CHOOSE r \in {IF i < 0 THEN -i ELSE i : i \in {i0}} : TRUE

RECURSIVE Gcd(_, _)
Gcd(a0, b0) ==
    CHOOSE r \in {IF b = 0 THEN a ELSE Gcd(b, a % b) : a \in {a0}, b \in {b0}} : TRUE

\* the rational n/d in lowest terms, d # 0
Q(n0, d0) ==
    CHOOSE r \in
      { <<(s * n) \div g, (s * d) \div g>> :
          n \in {n0}, d \in {d0}, g \in {Gcd(Abs(n0), Abs(d0))},
          s \in {IF d0 < 0 THEN -1 ELSE 1} } : TRUE

I(n) == <<n, 1>>
NonFinite == <<0, 0>>
IsFinite(a) == a[2] # 0

\* sums and products cancel common factors before they multiply
RAdd(a0, b0) ==
    CHOOSE r \in
      { IF IsFinite(a) /\ IsFinite(b)
        THEN CHOOSE q \in
               { Q(a[1] * (b[2] \div g) + b[1] * (a[2] \div g), (a[2] \div g) * b[2]) :
                   g \in {Gcd(a[2], b[2])} } : TRUE
        ELSE NonFinite : a \in {a0}, b \in {b0} } : TRUE
RMul(a0, b0) ==
    CHOOSE r \in
      { IF IsFinite(a) /\ IsFinite(b)
        THEN CHOOSE q \in
               { Q((a[1] \div g1) * (b[1] \div g2), (a[2] \div g2) * (b[2] \div g1)) :
                   g1 \in {Gcd(Abs(a[1]), b[2])}, g2 \in {Gcd(Abs(b[1]), a[2])} } : TRUE
        ELSE NonFinite : a \in {a0}, b \in {b0} } : TRUE
RNeg(a0) ==
    CHOOSE r \in {IF IsFinite(a) THEN <<-a[1], a[2]>> ELSE NonFinite : a \in {a0}} : TRUE
RSub(a, b) == RAdd(a, RNeg(b))
\* float division: a zero divisor gives inf or nan, never an exception
RDiv(a0, b0) ==
    CHOOSE r \in
      { IF IsFinite(a) /\ IsFinite(b) /\ b[1] # 0
        THEN RMul(a, Q(b[2], b[1])) ELSE NonFinite : a \in {a0}, b \in {b0} } : TRUE

IsSquare(n) == \E k \in 0..n : k * k = n
ISqrt(n) == CHOOSE k \in 0..n : k * k = n
\* N.sqrt on the rationals whose root is rational (the inputs are chosen so)
RSqrt(a0) ==
    CHOOSE r \in
      { IF IsFinite(a) /\ a[1] >= 0 /\ IsSquare(a[1]) /\ IsSquare(a[2])
        THEN <<ISqrt(a[1]), ISqrt(a[2])>> ELSE NonFinite : a \in {a0} } : TRUE

\* N.around followed by int(): round half to even
Around(a0) ==
    CHOOSE r \in
      { IF r2 < a[2] THEN fl
        ELSE IF r2 > a[2] THEN fl + 1
        ELSE IF fl % 2 = 0 THEN fl ELSE fl + 1 :
          a \in {a0}, fl \in {a0[1] \div a0[2]},
          r2 \in {2 * (a0[1] - (a0[1] \div a0[2]) * a0[2])} } : TRUE

(* ------------------------------ matrices ------------------------------ *)
\* a vector, a matrix as explicit tuples
Vec(v0) == CHOOSE r \in {[i \in 1..Len(v) |-> v[i]] \o <<>> : v \in {v0}} : TRUE
Mat(A0) == CHOOSE r \in {[i \in 1..Len(A) |-> Vec(A[i])] \o <<>> : A \in {A0}} : TRUE

RECURSIVE SumTo(_, _)
SumTo(v, k0) ==
    CHOOSE r \in {IF k = 0 THEN I(0) ELSE RAdd(v[k], SumTo(v, k - 1)) : k \in {k0}} : TRUE
SumSeq(v0) == CHOOSE r \in {SumTo(v, Len(v)) : v \in {v0}} : TRUE

NRows(A) == Len(A)
NCols(A0) == CHOOSE r \in {IF A = <<>> THEN 0 ELSE Len(A[1]) : A \in {A0}} : TRUE
Col(A0, j0) == CHOOSE r \in {Vec([i \in 1..Len(A) |-> A[i][j]]) : A \in {A0}, j \in {j0}} : TRUE
transpose(A0) == CHOOSE r \in {Mat([j \in 1..NCols(A) |-> Col(A, j)]) : A \in {A0}} : TRUE
Inner(u0, v0) ==
    CHOOSE r \in {SumSeq(Vec([i \in 1..Len(u) |-> RMul(u[i], v[i])])) :
                    u \in {u0}, v \in {v0}} : TRUE
\* N.dot of two matrices, of a matrix and a vector
dot(A0, B0) ==
    CHOOSE r \in
      { Mat([i \in 1..Len(A) |-> [j \in 1..Len(Bt) |-> Inner(A[i], Bt[j])]]) :
          A \in {A0}, Bt \in {transpose(B0)} } : TRUE
dotv(A0, v0) ==
    CHOOSE r \in {Vec([i \in 1..Len(A) |-> Inner(A[i], v)]) : A \in {A0}, v \in {v0}} : TRUE
VSub(u0, v0) ==
    CHOOSE r \in {Vec([i \in 1..Len(u) |-> RSub(u[i], v[i])]) : u \in {u0}, v \in {v0}} : TRUE
Scale(A0, c0) ==
    CHOOSE r \in {Mat([i \in 1..Len(A) |-> [j \in 1..Len(A[i]) |-> RMul(A[i][j], c)]]) :
                    A \in {A0}, c \in {c0}} : TRUE
Zeros(n, m) == Mat([i \in 1..n |-> [j \in 1..m |-> I(0)]])
IntMat(A) == Mat([i \in 1..Len(A) |-> [j \in 1..Len(A[i]) |-> I(A[i][j])]])
IntVec(v) == Vec([i \in 1..Len(v) |-> I(v[i])])
Trace(A0) == CHOOSE r \in {SumSeq(Vec([i \in 1..Len(A) |-> A[i][i]])) : A \in {A0}} : TRUE
Frob2(A0) == CHOOSE r \in {SumSeq(Vec([i \in 1..Len(A) |-> Inner(A[i], A[i])])) : A \in {A0}} : TRUE

\* the rows of A but row p, each less its first-column multiple of row p,
\* without their first column
Eliminate(A0, p0) ==
    CHOOSE r \in
      { Mat([k \in 1..(Len(A) - 1) |->
               Tail(VSub(A[IF k < p THEN k ELSE k + 1],
                         Scale(<<A[p]>>, RDiv(A[IF k < p THEN k ELSE k + 1][1], A[p][1]))[1]))]) :
          A \in {A0}, p \in {p0} } : TRUE

\* rank by Gaussian elimination on the first column
RECURSIVE Rank(_)
Rank(A0) ==
    CHOOSE r \in
      { IF A = <<>> \/ NCols(A) = 0 THEN 0
        ELSE IF \A i \in 1..Len(A) : A[i][1] = I(0)
             THEN Rank(Mat([i \in 1..Len(A) |-> Tail(A[i])]))
             ELSE 1 + Rank(Eliminate(A, CHOOSE i \in 1..Len(A) :
                                          /\ A[i][1] # I(0)
                                          /\ \A k \in 1..(i - 1) : A[k][1] = I(0))) :
          A \in {A0} } : TRUE

Inv2(G0) ==
    CHOOSE r \in
      { << <<RDiv(G[2][2], det), RDiv(RNeg(G[1][2]), det)>>,
           <<RDiv(RNeg(G[2][1]), det), RDiv(G[1][1], det)>> >> :
          G \in {G0},
          det \in {RSub(RMul(G0[1][1], G0[2][2]), RMul(G0[1][2], G0[2][1]))} } : TRUE

\* Moore-Penrose inverse of a matrix with at most two columns
PinvCols(A0) ==
    CHOOSE P \in
      { IF r = 0 THEN Zeros(NCols(A), NRows(A))
        ELSE IF r = 1 THEN Scale(At, RDiv(I(1), Frob2(A)))
        ELSE dot(Inv2(dot(At, A)), At) :
          A \in {A0}, At \in {transpose(A0)}, r \in {Rank(A0)} } : TRUE

\* L.pinv, for matrices with at most two columns or at most two rows
pinv(A0) ==
    CHOOSE P \in
      { IF NCols(A) <= 2 THEN PinvCols(A) ELSE transpose(PinvCols(transpose(A))) :
          A \in {A0} } : TRUE

(* ------------------------------ inputs -------------------------------- *)
\* the group-indicator design and response of the documented scenario
D_scenario == IntMat(<< <<1, 0>>, <<1, 0>>, <<0, 1>>, <<0, 1>> >>)
Y_scenario == IntVec(<<1, 3, 2, 6>>)

Designs == { D_scenario,
             IntMat(<< <<1>>, <<1>>, <<1>>, <<1>> >>),
             IntMat(<< <<1, 0>>, <<1, 1>>, <<1, 2>> >>) }
Responses == { Y_scenario, IntVec(<<2, 2, 5, 5>>), IntVec(<<1, 2, 4>>) }
\* correlation parameters in (-1, 1) whose whitening factor is rational
Rhos == { I(0), Q(3, 5) }
WeightVectors == { IntVec(<<1, 1, 1, 1>>), IntVec(<<4, 1, 4, 1>>), IntVec(<<1, 1, 1>>) }
Kinds == {"OLS", "AR", "WLS"}

(* ---------------------- the regression models ------------------------- *)
VARIABLES
    model,  \* the model object: its class (kind), traits and derived attributes
    lfit,   \* the RegressionModelResults object the caller holds
    snap,   \* what the caller read through lfit when fit returned it
    out,    \* the outcome of the last call: exception raised, value returned
    it,     \* LinearModelIterator.fit: its position, locals and what it did so far
    cfc     \* the last contrastfromcols call: its arguments, locals and outcome

\* class attribute defaults: design and weights are traits.Any() (None),
\* rho is traits.Float() (0.0); no derived attribute exists yet
NewModel(kind) ==
    [kind |-> kind, design |-> Unset, rho |-> I(0), weights |-> Unset,
     wdesign |-> Unset, calc_beta |-> Unset, normalized_cov_beta |-> Unset,
     df_resid |-> Unset]

\* OLSModel.whiten
whitenOLS(X) == Some(X)

\* ARModel.whiten; X[0] of an empty or missing array raises (Unset)
whitenAR(rho0, X0, ndim) ==
    CHOOSE r \in
      { IF X = <<>> THEN Unset
        ELSE IF ndim = 1
        THEN Some(Vec([i \in 1..Len(X) |->
                IF i = 1 THEN X[1]
                ELSE RMul(RSub(X[i], RMul(rho, X[i - 1])), factor)]))
        ELSE Some(Mat([i \in 1..Len(X) |->
                IF i = 1 THEN X[1]
                ELSE [j \in 1..Len(X[i]) |->
                        RMul(RSub(X[i][j], RMul(rho, X[i - 1][j])), factor)]])) :
          rho \in {rho0}, X \in {X0},
          factor \in {RDiv(I(1), RSqrt(RSub(I(1), RMul(rho0, rho0))))} } : TRUE

\* WLSModel.whiten: only the division by sqrt(weights); raises (Unset)
\* when weights is None or cannot be broadcast against the rows of X
whitenWLS(weights0, X0, ndim) ==
    CHOOSE r \in
      { IF ~Has(weights) \/ X = <<>> THEN Unset
        ELSE IF Len(Get(weights)) # Len(X) THEN Unset
        ELSE CHOOSE v \in
               { IF ndim = 1
                 THEN Some(Vec([i \in 1..Len(X) |-> RDiv(X[i], c[i])]))
                 ELSE Some(Mat([i \in 1..Len(X) |->
                         [j \in 1..Len(X[i]) |-> RDiv(X[i][j], c[i])]])) :
                   c \in {Vec([i \in 1..Len(X) |-> RSqrt(Get(weights)[i])])} } : TRUE :
          weights \in {weights0}, X \in {X0} } : TRUE

\* whiten, had WLSModel.whiten chained the AR(1) transform it inherits
whiten_chained(m, X, ndim) ==
    IF m.kind = "OLS" THEN whitenOLS(X)
    ELSE IF m.kind = "AR" THEN whitenAR(m.rho, X, ndim)
    ELSE CHOOSE r \in
           { IF Has(w) THEN whitenAR(m.rho, Get(w), ndim) ELSE Unset :
               w \in {whitenWLS(m.weights, X, ndim)} } : TRUE

\* self.whiten(X) as the model's class resolves it
whiten(m, X, ndim) ==
    IF m.kind = "OLS" THEN whitenOLS(X)
    ELSE IF m.kind = "AR" THEN whitenAR(m.rho, X, ndim)
    ELSE whitenWLS(m.weights, X, ndim)

\* OLSModel.setup: raises (AttributeError) when there is no wdesign, and
\* then assigns nothing
setup(m0) ==
    CHOOSE r \in
      { IF ~Has(m.wdesign) THEN [raised |-> TRUE, m |-> m]
        ELSE CHOOSE s \in
               { [raised |-> FALSE,
                  m |-> [m EXCEPT
                     !.calc_beta = Some(cb),
                     !.normalized_cov_beta = Some(dot(cb, transpose(cb))),
                     !.df_resid = Some(Around(RSub(I(NRows(Get(m.wdesign))),
                                                   Trace(dot(cb, Get(m.wdesign))))))]] :
                   cb \in {pinv(Get(m.wdesign))} } : TRUE :
          m \in {m0} } : TRUE

\* OLSModel._wdesign_changed; an exception of a change handler does not
\* undo the assignment that fired it
wdesign_changed(m) == setup(m).m

\* OLSModel._design_changed / ARModel._design_changed, followed by the
\* handler the assignment to wdesign fires
design_changed(m0) ==
    CHOOSE r \in
      { IF m.kind = "OLS"
        THEN wdesign_changed([m EXCEPT !.wdesign = m.design])
        ELSE CHOOSE n \in
               { IF Has(w) THEN wdesign_changed([m EXCEPT !.wdesign = w]) ELSE m :
                   w \in {IF Has(m.design) THEN whiten(m, Get(m.design), 2) ELSE Unset} } : TRUE :
          m \in {m0} } : TRUE

\* ARModel._rho_changed
rho_changed(m) == design_changed(m)

\* WLSModel._weights_changed
weights_changed(m) == design_changed(m)

\* Model.__init__(**keywords): the keyword traits are assigned
ModelInit(kind, design) ==
    IF Has(design) THEN design_changed([NewModel(kind) EXCEPT !.design = design])
    ELSE NewModel(kind)

\* OLSModel.__init__, had setup() been called outside a try
OLSModelInit_noexcept(kind, design) ==
    CHOOSE r \in
      { [raised |-> IF s.raised THEN "AttributeError" ELSE "",
         setupRaised |-> s.raised, m |-> s.m] :
          s \in {setup(ModelInit(kind, design))} } : TRUE

\* OLSModel.__init__: setup() in a try whose except clause passes, so that
\* no exception of setup leaves the constructor
OLSModelInit(kind, design) ==
    CHOOSE r \in
      { [raised |-> "", setupRaised |-> s.raised, m |-> s.m] :
          s \in {setup(ModelInit(kind, design))} } : TRUE

\* RegressionModelResults(): no attribute set
NewResults ==
    [beta |-> Unset, normalized_cov_beta |-> Unset, df_resid |-> FALSE,
     resid |-> Unset, scale |-> Unset, Z |-> Unset, sd |-> Unset]

\* the outcome of a call: the exception that left it, the value returned,
\* and for fit and the constructor what became of setup
NoOut == [op |-> "assign", raised |-> "", value |-> <<>>, returned |-> FALSE,
          hadCalcBeta |-> FALSE, setupCalled |-> FALSE, setupRaised |-> FALSE]

\* OLSModel.df_resid
df_resid(m) == Get(m.df_resid)

\* fitResults, had the scale been the mean of the squared residuals
fitResults_scaleByN(m0, Z0) ==
    CHOOSE r \in
      { CHOOSE q \in
          { [beta |-> Some(beta),
             normalized_cov_beta |-> m.normalized_cov_beta,
             df_resid |-> TRUE,
             resid |-> Some(resid),
             scale |-> Some(RDiv(Inner(resid, resid), I(Len(Z)))),
             Z |-> Some(Z),
             sd |-> Unset] :
              resid \in {VSub(Z, dotv(Get(m.wdesign), beta))} } : TRUE :
          m \in {m0}, Z \in {Z0}, beta \in {dotv(Get(m0.calc_beta), Z0)} } : TRUE

\* the statements of OLSModel.fit after Z = self.whiten(Y)
fitResults(m0, Z0) ==
    CHOOSE r \in
      { CHOOSE q \in
          { [beta |-> Some(beta),
             normalized_cov_beta |-> m.normalized_cov_beta,
             df_resid |-> TRUE,
             resid |-> Some(resid),
             scale |-> Some(RDiv(Inner(resid, resid), I(df_resid(m)))),
             Z |-> Some(Z),
             sd |-> Unset] :
              resid \in {VSub(Z, dotv(Get(m.wdesign), beta))} } : TRUE :
          m \in {m0}, Z \in {Z0}, beta \in {dotv(Get(m0.calc_beta), Z0)} } : TRUE

\* OLSModel.fit: the exception raised ("" if none), the model afterwards,
\* the result returned, and whether setup was called and raised
fit(m0, Y) ==
    CHOOSE r \in
      { CHOOSE q \in
          { CHOOSE f \in
              { [raised |-> IF s.raised THEN "AttributeError"
                            ELSE IF ~Has(Z) THEN "TypeError"
                            ELSE IF NCols(Get(s.m.calc_beta)) # Len(Get(Z)) THEN "ValueError"
                            ELSE "",
                 m |-> s.m,
                 lfit |-> IF s.raised \/ ~Has(Z) \/ NCols(Get(s.m.calc_beta)) # Len(Get(Z))
                          THEN NewResults
                          ELSE fitResults(s.m, Get(Z)),
                 hadCalcBeta |-> had, setupCalled |-> ~had,
                 setupRaised |-> s.raised] :
                  Z \in {IF s.raised THEN Unset ELSE whiten(s.m, Y, 1)} } : TRUE :
              s \in {IF had THEN [raised |-> FALSE, m |-> m] ELSE setup(m)} } : TRUE :
          m \in {m0}, had \in {Has(m0.calc_beta)} } : TRUE

\* N.sqrt(scale), kept symbolic: the non-negative root of its argument
Sqrt(q) == [sqrtOf |-> q]

\* sd, had it not asked for the residuals first
sd_unchecked(r) ==
    [raised |-> "",
     r |-> [r EXCEPT !.sd = Some(Sqrt(IF Has(r.scale) THEN Get(r.scale) ELSE NonFinite))]]

\* RegressionModelResults.sd
sd(r) ==
    IF ~Has(r.resid) THEN [raised |-> "ValueError", r |-> r]
    ELSE [raised |-> "", r |-> [r EXCEPT !.sd = Some(Sqrt(Get(r.scale)))]]

\* RegressionModelResults.t: after the standard deviation is there, both
\* branches read the global name _beta, which the module never binds
t(r, column) ==
    LET s == IF Has(r.sd) THEN [raised |-> "", r |-> r] ELSE sd(r)
    IN  IF s.raised # "" THEN [raised |-> s.raised, r |-> s.r, value |-> <<>>]
        ELSE [raised |-> "NameError", r |-> s.r, value |-> <<>>]

\* what a caller reads through a result: its attributes and the value its
\* df_resid attribute, the model's bound method, returns now
ReadResult(r, m) ==
    [beta |-> r.beta, resid |-> r.resid, scale |-> r.scale,
     normalized_cov_beta |-> r.normalized_cov_beta,
     df_resid |-> IF r.df_resid THEN m.df_resid ELSE Unset]

mvars == <<model, lfit, snap, out>>
vars == <<model, lfit, snap, out, it, cfc>>

\* fit of the iterator not called, contrastfromcols not called
ItIdle == [pc |-> "idle"]
CfcIdle == [called |-> FALSE]

Init ==
    /\ \E kind \in Kinds, d \in {Unset} \cup {Some(D) : D \in Designs} :
          \E c \in {OLSModelInit(kind, d)} :
             /\ model = c.m
             /\ out = [NoOut EXCEPT !.op = "init", !.raised = c.raised,
                         !.setupCalled = TRUE, !.setupRaised = c.setupRaised]
    /\ lfit = NewResults
    /\ snap = Unset
    /\ it = ItIdle
    /\ cfc = CfcIdle

\* model.design = D
SetDesign ==
    \E D \in Designs :
       /\ model' = design_changed([model EXCEPT !.design = Some(D)])
       /\ out' = [NoOut EXCEPT !.op = "assign"]
       /\ UNCHANGED <<lfit, snap, it, cfc>>

\* model.rho = r
SetRho ==
    \E r \in Rhos :
       /\ model.kind \in {"AR", "WLS"}
       /\ model' = rho_changed([model EXCEPT !.rho = r])
       /\ out' = [NoOut EXCEPT !.op = "assign"]
       /\ UNCHANGED <<lfit, snap, it, cfc>>

\* model.weights = w
SetWeights ==
    \E w \in WeightVectors :
       /\ model.kind = "WLS"
       /\ model' = weights_changed([model EXCEPT !.weights = Some(w)])
       /\ out' = [NoOut EXCEPT !.op = "assign"]
       /\ UNCHANGED <<lfit, snap, it, cfc>>

\* model.setup()
Setup ==
    \E s \in {setup(model)} :
       /\ model' = s.m
       /\ out' = [NoOut EXCEPT !.op = "setup",
                    !.raised = IF s.raised THEN "AttributeError" ELSE "",
                    !.setupCalled = TRUE, !.setupRaised = s.raised]
       /\ UNCHANGED <<lfit, snap, it, cfc>>

\* model.fit(Y); the caller keeps the result returned, or goes on holding
\* the result of an earlier call
Fit ==
    \E Y \in Responses :
       \E f \in {fit(model, Y)} :
          /\ model' = f.m
          /\ out' = [NoOut EXCEPT !.op = "fit", !.raised = f.raised,
                       !.returned = (f.raised = ""),
                       !.hadCalcBeta = f.hadCalcBeta, !.setupCalled = f.setupCalled,
                       !.setupRaised = f.setupRaised]
          /\ UNCHANGED <<it, cfc>>
          /\ \E keep \in BOOLEAN :
                IF f.raised = "" /\ keep
                THEN /\ lfit' = f.lfit
                     /\ snap' = Some([Y |-> Y, wdesign |-> f.m.wdesign,
                                      weights |-> f.m.weights,
                                      read |-> ReadResult(f.lfit, f.m)])
                ELSE UNCHANGED <<lfit, snap>>

Next == SetDesign \/ SetRho \/ SetWeights \/ Setup \/ Fit

Spec == Init /\ [][Next]_vars

(* ----------------------- statistics of a result ----------------------- *)
\* lfit.sd()
CallSd ==
    /\ lfit' = sd(lfit).r
    /\ out' = [NoOut EXCEPT !.op = "sd", !.raised = sd(lfit).raised]
    /\ UNCHANGED <<model, snap, it, cfc>>

\* lfit.t(column=column); column 0 stands for None
CallT ==
    \E column \in 0..2 :
       LET c == t(lfit, column)
       IN  /\ lfit' = c.r
           /\ out' = [NoOut EXCEPT !.op = "t", !.raised = c.raised, !.value = c.value]
           /\ UNCHANGED <<model, snap, it, cfc>>

ResultsNext == SetDesign \/ Fit \/ CallSd \/ CallT

ResultsSpec == Init /\ [][ResultsNext]_vars

(* ------------------------ LinearModelIterator ------------------------- *)
\* LinearModelIterator.__init__: an iterator over nChunks chunks and the
\* outputs, each with its nout attribute
NewIterator(nChunks, nout) ==
    [pc |-> "for", nChunks |-> nChunks, nout |-> nout,
     k |-> 0, j |-> 0, results |-> Unset, outSize |-> 0, raised |-> "",
     trace |-> <<>>, sinks |-> [o \in 1..Len(nout) |-> <<>>]]

IterInit ==
    /\ \E nChunks \in 0..MaxChunks, nOutputs \in 0..MaxOutputs :
          \E nout \in [1..nOutputs -> {1, 2}] : it = NewIterator(nChunks, nout)
    /\ model = NewModel("OLS")
    /\ lfit = NewResults
    /\ snap = Unset
    /\ out = NoOut
    /\ cfc = CfcIdle

\* for data in self.iterator: the next chunk, flattened, or the end of the loop
NextChunk ==
    /\ it.pc = "for"
    /\ it' = IF it.k < it.nChunks
             THEN [it EXCEPT !.k = it.k + 1, !.pc = "model"]
             ELSE [it EXCEPT !.pc = "done"]
    /\ UNCHANGED <<mvars, cfc>>

\* model = self.model()
CallModel ==
    /\ it.pc = "model"
    /\ it' = [it EXCEPT !.pc = "fit"]
    /\ UNCHANGED <<mvars, cfc>>

\* results = model.fit(data, **keywords)
FitChunk ==
    /\ it.pc = "fit"
    /\ it' = [it EXCEPT !.results = Some(it.k), !.j = 1, !.pc = "extract",
                        !.trace = Append(it.trace, <<"fit", it.k, 0>>)]
    /\ UNCHANGED <<mvars, cfc>>

\* for output in self.outputs: out = output.extract(results); the output
\* decides how many elements the array it returns has
Extract ==
    /\ it.pc = "extract"
    /\ it.j <= Len(it.nout)
    /\ \E size \in {ChunkSize, 2 * ChunkSize} :
          it' = [it EXCEPT !.outSize = size, !.pc = "shape",
                           !.trace = Append(it.trace, <<"extract", it.k, it.j>>)]
    /\ UNCHANGED <<mvars, cfc>>

\* out.shape = (output.nout,) + shape, or shape: ValueError unless the
\* array has that many elements
Reshape ==
    /\ it.pc = "shape"
    /\ it' = IF it.outSize = (IF it.nout[it.j] > 1 THEN it.nout[it.j] ELSE 1) * ChunkSize
             THEN [it EXCEPT !.pc = "next"]
             ELSE [it EXCEPT !.pc = "raised", !.raised = "ValueError"]
    /\ UNCHANGED <<mvars, cfc>>

\* output.next(data=out), and on to the following output
Consume ==
    /\ it.pc = "next"
    /\ it' = [it EXCEPT !.sinks[it.j] = Append(it.sinks[it.j], it.k),
                        !.j = it.j + 1, !.pc = "extract",
                        !.trace = Append(it.trace, <<"next", it.k, it.j>>)]
    /\ UNCHANGED <<mvars, cfc>>

\* Discard, had the loop gone on to the next chunk with results still bound
Discard_skip ==
    /\ it.pc = "extract"
    /\ it.j > Len(it.nout)
    /\ it' = [it EXCEPT !.pc = "for", !.trace = Append(it.trace, <<"del", it.k, 0>>)]
    /\ UNCHANGED <<mvars, cfc>>

\* del(results); gc.collect() once the outputs are through
Discard ==
    /\ it.pc = "extract"
    /\ it.j > Len(it.nout)
    /\ it' = [it EXCEPT !.results = Unset, !.pc = "for",
                        !.trace = Append(it.trace, <<"del", it.k, 0>>)]
    /\ UNCHANGED <<mvars, cfc>>

\* Raise, had the loop caught the exception and gone on to the next chunk
Raise_swallowed ==
    /\ \/ it.pc \in {"model", "fit", "next"}
       \/ it.pc = "extract" /\ it.j <= Len(it.nout)
    /\ it' = [it EXCEPT !.pc = "for", !.raised = "Exception", !.results = Unset]
    /\ UNCHANGED <<mvars, cfc>>

\* a call the loop makes raises: nothing in fit catches it
Raise ==
    /\ \/ it.pc \in {"model", "fit", "next"}
       \/ it.pc = "extract" /\ it.j <= Len(it.nout)
    /\ it' = [it EXCEPT !.pc = "raised", !.raised = "Exception"]
    /\ UNCHANGED <<mvars, cfc>>

IterNext ==
    NextChunk \/ CallModel \/ FitChunk \/ Extract \/ Reshape \/ Consume \/ Discard \/ Raise

IterSpec == IterInit /\ [][IterNext]_vars

\* the interpreter runs the loop on: a step that can be taken is taken
FairIterSpec == IterSpec /\ WF_vars(IterNext)
(* -------------------------- contrastfromcols -------------------------- *)
\* utils.rank: the rank of a matrix
rank(X) == Rank(X)

\* the first k of the columns cols, less those that depend on earlier ones
RECURSIVE Independent(_, _)
Independent(cols0, k0) ==
    CHOOSE r \in
      { IF k = 0 THEN <<>>
        ELSE CHOOSE q \in
               { IF Rank(Append(S, cols[k])) > Len(S) THEN Append(S, cols[k]) ELSE S :
                   S \in {Independent(cols, k - 1)} } : TRUE :
          cols \in {cols0}, k \in {k0} } : TRUE

\* utils.fullrank: a full-rank column subset of X
fullrank(X0) ==
    CHOOSE r \in {transpose(Independent(Xt, Len(Xt))) : Xt \in {transpose(X0)}} : TRUE

RECURSIVE Flatten(_, _)
Flatten(A, k0) ==
    CHOOSE r \in {IF k = 0 THEN <<>> ELSE Flatten(A, k - 1) \o A[k] : k \in {k0}} : TRUE

\* N.squeeze of a matrix with the given number of columns: the axes of
\* length one are dropped
squeeze(C0, ncols) ==
    CHOOSE r \in
      { [shape |-> SelectSeq(<<Len(C), ncols>>, LAMBDA d : d # 1),
         data |-> Flatten(C, Len(C))] : C \in {C0} } : TRUE

\* contrastfromcols from "Tp = N.dot(D, N.transpose(C))" on
contrastFullRank(D0, P0, C0) ==
    CHOOSE r \in
      { IF rank(Tp) # NCols(Tp)
        THEN transpose(dot(P, fullrank(Tp)))
        ELSE C :
          D \in {D0}, P \in {P0}, C \in {C0}, Tp \in {dot(D0, transpose(C0))} } : TRUE

\* shapeMismatch, had either difference been enough to raise
shapeMismatch_or(T, D) == NRows(T) # NRows(D) \/ NCols(T) # NCols(D)

\* the test of contrastfromcols that raises ValueError
shapeMismatch(T, D) == NRows(T) # NRows(D) /\ NCols(T) # NCols(D)

\* contrastfromcols(T, D) with pinv=None: the exception raised, the local
\* pinv if it was computed, the first value of C and the value returned
contrastfromcols(T0, D0) ==
    CHOOSE r \in
      { IF shapeMismatch(T, D)
        THEN [called |-> TRUE, T |-> T, D |-> D, raised |-> "ValueError",
              pinv |-> Unset, C0 |-> Unset, C |-> Unset]
        ELSE CHOOSE q \in
               { CHOOSE c \in
                   { [called |-> TRUE, T |-> T, D |-> D, raised |-> "",
                      pinv |-> Some(P), C0 |-> Some(C),
                      C |-> Some(squeeze(contrastFullRank(D, P, C), NCols(D)))] :
                       C \in {IF NRows(T) = NRows(D) THEN transpose(dot(P, T)) ELSE T} } : TRUE :
                   P \in {pinv(D)} } : TRUE :
          T \in {T0}, D \in {D0} } : TRUE

\* the designs and the matrices T contrastfromcols is called with
ContrastDesigns ==
    { IntMat(<< <<1, 0>>, <<1, 1>> >>),
      IntMat(<< <<1, 0>>, <<1, 1>>, <<1, 2>> >>),
      IntMat(<< <<1, 1>>, <<1, 1>>, <<1, 1>> >>),
      IntMat(<< <<1>>, <<1>>, <<1>> >>),
      IntMat(<< <<1>>, <<2>> >>) }
ContrastShapes == (1..3) \X (1..2)
ContrastTs ==
    UNION { { IntMat(A) : A \in [1..sh[1] -> [1..sh[2] -> 0..MaxCoef]] } : sh \in ContrastShapes }

\* the arguments of a call not made yet
CfcArgs(T, D) ==
    [called |-> FALSE, T |-> T, D |-> D, raised |-> "",
     pinv |-> Unset, C0 |-> Unset, C |-> Unset]

CfcInit ==
    /\ \E T \in ContrastTs, D \in ContrastDesigns : cfc = CfcArgs(T, D)
    /\ it = ItIdle
    /\ model = NewModel("OLS")
    /\ lfit = NewResults
    /\ snap = Unset
    /\ out = NoOut

\* contrastfromcols(T, D)
Contrast ==
    /\ ~cfc.called
    /\ cfc' = contrastfromcols(cfc.T, cfc.D)
    /\ UNCHANGED <<mvars, it>>

CfcNext == Contrast

CfcSpec == CfcInit /\ [][CfcNext]_vars
(* ------------------------------- claims ------------------------------- *)
AllOnes(w) == \A i \in 1..Len(w) : w[i] = I(1)
IsPrefix(u, v) == Len(u) <= Len(v) /\ SubSeq(v, 1, Len(u)) = u

\* C1: after any sequence of assignments to design, rho and weights the
\* derived state matches the configuration: wdesign is whiten(design) under
\* the current rho and weights, calc_beta is the pseudo-inverse of wdesign,
\* and normalized_cov_beta and the residual degrees of freedom are those
\* setup computes from them.
C1_DerivedStateConsistent ==
    Has(model.design) =>
       \E w \in {whiten(model, Get(model.design), 2)} :
          /\ model.wdesign = w
          /\ Has(w) =>
                \E cb \in {pinv(Get(w))} :
                   /\ model.calc_beta = Some(cb)
                   /\ model.normalized_cov_beta = Some(dot(cb, transpose(cb)))
                   /\ model.df_resid =
                         Some(Around(RSub(I(NRows(Get(w))), Trace(dot(cb, Get(w))))))

\* C2: what is read through a result that fit returned (beta, resid, scale,
\* normalized_cov_beta and the value of df_resid()) stays what it was when
\* fit returned, whatever is done to the model afterwards.
C2_ResultImmutable ==
    Has(snap) => ReadResult(lfit, model) = Get(snap).read

\* the events of a whole run of the loop over nChunks chunks and nOutputs
\* outputs, in order
RECURSIVE OutputEvents(_, _)
OutputEvents(k, n) ==
    IF n = 0 THEN <<>>
    ELSE OutputEvents(k, n - 1) \o << <<"extract", k, n>>, <<"next", k, n>> >>
RECURSIVE ExpectedTrace(_, _)
ExpectedTrace(nChunks, nOutputs) ==
    IF nChunks = 0 THEN <<>>
    ELSE ExpectedTrace(nChunks - 1, nOutputs)
           \o << <<"fit", nChunks, 0>> >> \o OutputEvents(nChunks, nOutputs)
           \o << <<"del", nChunks, 0>> >>

C3_Order ==
    it.pc # "idle" =>
       /\ IsPrefix(it.trace, ExpectedTrace(it.nChunks, Len(it.nout)))
       /\ it.pc \in {"for", "model", "fit", "done"} => ~Has(it.results)
       /\ Has(it.results) => it.results = Some(it.k)
       /\ it.pc = "done" => it.trace = ExpectedTrace(it.nChunks, Len(it.nout))

\* C3: the loop fits each chunk once and in order; for a chunk the fit comes
\* first, then for each output in registration order its extract and its
\* consumption step; the result is discarded after the last output and
\* before the next fit; and the loop ends when the iterator is exhausted.
C3_Sequential == [](C3_Order) /\ <>(it.pc \in {"done", "raised"})

C3_Witness ==
    /\ it.pc = "done"
    /\ it.nChunks = 2
    /\ Len(it.nout) = 2
    /\ Len(it.trace) = 12

\* C4: an exception raised while a chunk is processed leaves fit for the
\* caller: nothing more is extracted, consumed, taken from the iterator or
\* fitted, and what the outputs consumed before stays consumed.
C4_Abort ==
    /\ [](it.pc # "idle" /\ it.raised # "" => it.pc = "raised" /\ ~ENABLED IterNext)
    /\ [][it.pc # "idle" =>
            \A o \in 1..Len(it.nout) : IsPrefix(it.sinks[o], it'.sinks[o])]_vars

C4_Witness ==
    /\ it.pc = "raised"
    /\ it.k = 2
    /\ Len(it.nout) = 2
    /\ it.sinks[1] = <<1, 2>>
    /\ it.sinks[2] = <<1>>

C6_TWithoutResiduals ==
    [][out'.op = "t" /\ ~Has(lfit.resid) =>
          /\ out'.raised = "ValueError"
          /\ out'.value = <<>>
          /\ ~out'.returned
          /\ lfit' = lfit
          /\ ~Has(lfit'.sd)]_vars

C6_Witness ==
    /\ out.op = "t"
    /\ out.raised = "ValueError"
    /\ ~Has(lfit.resid)
    /\ ~Has(lfit.sd)

\* utils.recipr of the product sd * sqrt(c), kept symbolic: 0 where the
\* product is 0, its reciprocal elsewhere
ReciprSqrt(q) == [reciprOfSqrtOf |-> q]

\* beta[i] * recipr(sd * sqrt(normalized_cov_beta[i, i]))
TStatistic(r, i) ==
    [coef |-> Get(r.beta)[i],
     times |-> ReciprSqrt(RMul(Get(r.scale), Get(r.normalized_cov_beta)[i][i]))]

\* C7: on a result of fit, t(column=i) returns
\* beta[i] * recipr(sd * sqrt(normalized_cov_beta[i, i])), t() returns that
\* for every i, and the standard deviation is computed and cached first
\* when it is missing.
C7_TStatistic ==
    out.op = "t" /\ Has(lfit.resid) =>
       /\ out.raised = ""
       /\ lfit.sd = Some(Sqrt(Get(lfit.scale)))
       /\ \/ out.value = [i \in 1..Len(Get(lfit.beta)) |-> TStatistic(lfit, i)]
          \/ \E i \in 1..Len(Get(lfit.beta)) : out.value = <<TStatistic(lfit, i)>>

\* C8: fit of the OLS model computes beta = calc_beta . Y,
\* resid = Y - wdesign . beta and scale = sum(resid^2) / df_resid with
\* df_resid = n - round(trace(pinv . D)); for D = [[1,0],[1,0],[0,1],[0,1]]
\* and Y = [1,3,2,6] these are 2, [2, 4], [-1, 1, -2, 2] and 5.
C8_OLSFit ==
    Has(snap) /\ model.kind = "OLS" =>
       \E Y \in {Get(snap).Y}, D \in {Get(Get(snap).wdesign)} :
          \E beta \in {dotv(pinv(D), Y)} :
             \E resid \in {VSub(Y, dotv(D, beta))} :
                /\ lfit.Z = Some(Y)
                /\ lfit.beta = Some(beta)
                /\ lfit.resid = Some(resid)
                /\ Get(snap).read.df_resid = Some(NRows(D) - Rank(D))
                /\ lfit.scale = Some(RDiv(Inner(resid, resid), I(NRows(D) - Rank(D))))
                /\ Y = Y_scenario /\ D = D_scenario =>
                      /\ Get(snap).read.df_resid = Some(2)
                      /\ lfit.beta = Some(IntVec(<<2, 4>>))
                      /\ lfit.resid = Some(IntVec(<<-1, 1, -2, 2>>))
                      /\ lfit.scale = Some(I(5))

C8_Witness ==
    /\ Has(snap)
    /\ model.kind = "OLS"
    /\ Get(snap).Y = Y_scenario
    /\ Get(snap).wdesign = Some(D_scenario)
    /\ lfit.scale = Some(I(5))

\* C9: contrastfromcols raises ValueError exactly when T has neither D's
\* row count nor D's column count, before it computes anything; otherwise C
\* starts as (pinv(D) . T)' when T has D's row count and as T when not.
C9_ShapeCheck ==
    cfc.called =>
       /\ cfc.raised = "ValueError" <=>
             NRows(cfc.T) # NRows(cfc.D) /\ NCols(cfc.T) # NCols(cfc.D)
       /\ cfc.raised \in {"", "ValueError"}
       /\ cfc.raised # "" => ~Has(cfc.pinv) /\ ~Has(cfc.C0) /\ ~Has(cfc.C)
       /\ cfc.raised = "" =>
             /\ Has(cfc.C)
             /\ cfc.C0 = IF NRows(cfc.T) = NRows(cfc.D)
                         THEN Some(transpose(dot(pinv(cfc.D), cfc.T)))
                         ELSE Some(cfc.T)

C9_Witness ==
    /\ cfc.called
    /\ cfc.raised = ""
    /\ NRows(cfc.T) = NRows(cfc.D)
    /\ NCols(cfc.T) = NCols(cfc.D)
    /\ cfc.C0 # Some(cfc.T)

\* C10: with every weight equal to 1, WLSModel.whiten returns its input,
\* 1-D or 2-D, with the same shape and values, whatever rho is.
C10_UnitWeightsIdentity ==
    model.kind = "WLS" /\ Has(model.weights) /\ AllOnes(Get(model.weights)) =>
       /\ \A Y \in Responses :
             Len(Y) = Len(Get(model.weights)) => whiten(model, Y, 1) = Some(Y)
       /\ \A D \in Designs :
             NRows(D) = Len(Get(model.weights)) => whiten(model, D, 2) = Some(D)
       /\ Has(model.design) /\ NRows(Get(model.design)) = Len(Get(model.weights)) =>
             model.wdesign = model.design
       /\ Has(snap) /\ Get(snap).weights = model.weights => lfit.Z = Some(Get(snap).Y)

C10_Witness ==
    /\ model.kind = "WLS"
    /\ Has(model.weights) /\ AllOnes(Get(model.weights))
    /\ model.rho = Q(3, 5)
    /\ Has(model.design) /\ model.wdesign = model.design
    /\ Has(snap) /\ Get(snap).weights = model.weights /\ lfit.Z = Some(Get(snap).Y)
=============================================================================
